---- MODULE Spec2Model ----
(***************************************************************************)
(* Model of the Alacritty GTK widget bridge (src/widget.rs): the shared    *)
(* Option<State> cell, the per-frame event queue, the GUI callbacks, the   *)
(* render tick, the idle-task wakeup bridge and the I/O worker.            *)
(*                                                                         *)
(* Strings are sequences of Unicode code points; byte buffers are          *)
(* sequences of integers 0..255.  Option<T> is <<>> (None) or <<x>>.       *)
(***************************************************************************)
EXTENDS Integers, Sequences, FiniteSets, TLC

\* ------------------------------------------------------------------ bounds
MaxQueue == 2
MaxIdle == 1

\* --------------------------------------------------------------- Option<T>
None == <<>>
Some(x) == <<x>>
IsSome(o) == o # <<>>
Unwrap(o) == o[1]

\* ------------------------------------------------------------- enum Event
CharInput(c) == <<"CharInput", c>>
StrInput(s) == <<"StrInput", s>>
WindowResized(w, h) == <<"WindowResized", <<w, h>>>>
ChangeFontSize(delta) == <<"ChangeFontSize", delta>>
ResetFontSize == <<"ResetFontSize", 0>>

\* ------------------------------------------------------- sequence helpers
RECURSIVE Flatten(_)
Flatten(ss) == IF ss = <<>> THEN <<>> ELSE Head(ss) \o Flatten(Tail(ss))

\* ----------------------------------------------------- char and str (Rust)
\* char::len_utf8
LenUtf8Short(c) == IF c < 128 THEN 1 ELSE IF c < 2048 THEN 2 ELSE 3
LenUtf8(c) == IF c < 128 THEN 1 ELSE IF c < 2048 THEN 2 ELSE IF c < 65536 THEN 3 ELSE 4

\* char::encode_utf8: the bytes written at the front of the destination
EncodeUtf8(c) ==
    IF c < 128 THEN <<c>>
    ELSE IF c < 2048 THEN <<192 + (c \div 64), 128 + (c % 64)>>
    ELSE IF c < 65536 THEN
        <<224 + (c \div 4096), 128 + ((c \div 64) % 64), 128 + (c % 64)>>
    ELSE <<240 + (c \div 262144), 128 + ((c \div 4096) % 64),
           128 + ((c \div 64) % 64), 128 + (c % 64)>>

\* Contents of a Vec<u8> after with_capacity(len); set_len(len): every byte
\* is whatever the allocator left there.
Uninit == -1
UninitVec(len) == [i \in 1..len |-> Uninit]

\* c.encode_utf8(&mut bytes[..]) overwrites the first len_utf8(c) bytes of the
\* destination and leaves the rest untouched.
EncodeInto(c, bytes) ==
    LET enc == EncodeUtf8(c)
    IN [i \in 1..Len(bytes) |-> IF i <= Len(enc) THEN enc[i] ELSE bytes[i]]

\* Lines 131-136: the buffer sent for CharInput(c)
CharBytes(c) == EncodeInto(c, UninitVec(LenUtf8(c)))

\* str::as_bytes().to_vec(): the UTF-8 bytes of every char, in order
StrBytes(s) == Flatten([i \in 1..Len(s) |-> EncodeUtf8(s[i])])

\* char::is_whitespace (Unicode White_Space)
IsWhitespace(c) ==
    \/ c \in {9, 10, 11, 12, 13, 32, 133, 160, 5760, 8232, 8233, 8239, 8287, 12288}
    \/ (c >= 8192 /\ c <= 8202)

RECURSIVE TrimStart(_)
TrimStart(s) ==
    IF s # <<>> /\ IsWhitespace(Head(s)) THEN TrimStart(Tail(s)) ELSE s

RECURSIVE TrimEnd(_)
TrimEnd(s) ==
    IF s # <<>> /\ IsWhitespace(s[Len(s)]) THEN TrimEnd(SubSeq(s, 1, Len(s) - 1)) ELSE s

\* str::trim
Trim(s) == TrimEnd(TrimStart(s))

\* "file://"
FilePrefix == <<102, 105, 108, 101, 58, 47, 47>>

StartsWith(s, pat) == Len(s) >= Len(pat) /\ SubSeq(s, 1, Len(pat)) = pat

\* str::replace(pat, ""): every non-overlapping match, left to right
RECURSIVE RemoveAll(_, _)
RemoveAll(s, pat) ==
    IF s = <<>> THEN <<>>
    ELSE IF StartsWith(s, pat) THEN RemoveAll(SubSeq(s, Len(pat) + 1, Len(s)), pat)
    ELSE <<Head(s)>> \o RemoveAll(Tail(s), pat)

\* [String]::join(" ")
JoinNoSeparator(ss) == Flatten(ss)
RECURSIVE Join(_)
Join(ss) ==
    IF ss = <<>> THEN <<>>
    ELSE IF Len(ss) = 1 THEN ss[1]
    ELSE ss[1] \o <<32>> \o Join(Tail(ss))

\* Line 219: u.trim().replace("file://", "")
UriToPath(u) == RemoveAll(Trim(u), FilePrefix)

\* Line 221: text.replace("file://", "").trim()
TextToPath(text) == Trim(RemoveAll(text, FilePrefix))

\* `w as u32` of an i32: sizes GTK reports are never negative, and a
\* non-negative i32 keeps its value.
AsU32(w) == CASE w >= 0 -> w

\* `kv as u8 as char`
AsU8(kv) == kv % 256

\* gdk::keyval_to_unicode: Latin-1 keyvals map to themselves, keyvals
\* carrying the 0x01000000 flag map to their low 24 bits, function keys have
\* no Unicode value (NUL, which the binding turns into None).
KeyvalToUnicode(kv) ==
    IF (kv >= 32 /\ kv <= 126) \/ (kv >= 160 /\ kv <= 255) THEN Some(kv)
    ELSE IF kv \div 16777216 = 1 /\ kv % 16777216 # 0 THEN Some(kv % 16777216)
    ELSE None

\* Line 190: gdk::keyval_to_unicode(kv).unwrap_or(kv as u8 as char)
KeyChar(kv) ==
    LET u == KeyvalToUnicode(kv) IN IF IsSome(u) THEN Unwrap(u) ELSE AsU8(kv)


\* ------------------------------------------------------------ input domains
\* Keyvals of key-press events: 'a', Shift_L (no Unicode value), and the
\* direct-Unicode keyval of U+1F600.
Keyvals == {97, 65505, 16905728}

\* Text committed by the input method: "你好"
ImStrings == {<<20320, 22909>>}

\* The commit signals one im.filter_keypress call emits, in order
ImCommits == {<<>>, <<<<20320, 22909>>>>, <<<<20320, 22909>>, <<20320, 22909>>>>}

\* (width, height) of resize callbacks
Sizes == {<<800, 600>>}

\* "file:///tmp/a.txt", "file:///tmp/b.txt", "/tmp/b.txt"
UriA == <<102, 105, 108, 101, 58, 47, 47, 47, 116, 109, 112, 47, 97, 46, 116, 120, 116>>
UriB == <<102, 105, 108, 101, 58, 47, 47, 47, 116, 109, 112, 47, 98, 46, 116, 120, 116>>
PathB == <<47, 116, 109, 112, 47, 98, 46, 116, 120, 116>>

\* "file:///tmp/file://b.txt\r\n": a URI that holds "file://" twice and
\* ends in a line break
UriNested == <<102, 105, 108, 101, 58, 47, 47, 47, 116, 109, 112, 47,
               102, 105, 108, 101, 58, 47, 47, 98, 46, 116, 120, 116, 13, 10>>

\* data.get_uris() of a drop
DropUris == {<<>>, <<UriA, UriB>>, <<UriA, UriNested>>}

\* data.get_text() of a drop: None, Some(""),
\* Some(" file:///tmp/a.txt /tmp/b.txt\n")
DropTexts == {None, Some(<<>>), Some(<<32>> \o UriA \o <<32>> \o PathB \o <<10>>)}

\* Events the embedder pushes through the public event_queue field
EmbedderEvents == {ChangeFontSize(1)}

\* ------------------------------------------------------------------- state
VARIABLES
    state,        \* Rc<RefCell<Option<State>>>: None or Some(State)
    GLOBAL,       \* thread-local Option<GLArea>
    guiPc,        \* where the GUI thread is: "idle", "realize", "render" (asked for
                  \* the terminal lock), "drained" (queue applied, lock held),
                  \* "aborted" (the process died in a panic)
    frame,        \* locals of the render callback in progress
    term,         \* the Term behind state.terminal: dirty, next_title
    resize_chan,  \* messages in flight on display.resize_channel()
    lockQ,        \* FairMutex<Term>: holder first, then waiters in arrival order
    worker,       \* I/O worker of the current State: "none", "run", "wait" (asked
                  \* for the lock), "locked" (mutated, notify() not yet called),
                  \* "notified" (lock held, notify() called), "owes" (lock
                  \* released, notify() not yet called)
    lingering,    \* some worker whose State was dropped has not exited yet
    idleTasks,    \* closures queued by glib::idle_add and not yet run
    redraw,       \* a frame was requested by queue_draw and not yet rendered
    last          \* the step taken last and what it did

vars == <<state, GLOBAL, guiPc, frame, term, resize_chan, lockQ, worker, lingering,
          idleTasks, redraw, last>>

\* Lines 112-116: the State realize publishes
NewState ==
    [config |-> TRUE, display |-> TRUE, terminal |-> TRUE, pty |-> TRUE,
     loop_notifier |-> TRUE, event_queue |-> <<>>]

\* Term::new
NewTerm == [dirty |-> FALSE, next_title |-> FALSE]

\* Locals of the render callback when no callback is in progress.  late and
\* mutated record what the callback met: whether the worker called notify()
\* after the callback had started, and whether the terminal held a worker
\* mutation no frame had drawn when the callback obtained the lock.
NoFrame ==
    [late |-> FALSE, mutated |-> FALSE, applied |-> <<>>, sent |-> <<>>, resizes |-> <<>>]

\* FairMutex::lock (line 127): the caller joins the queue of the mutex behind
\* every thread that asked before it, and has the lock once it is first.
LockUnfair(q, who) == <<who>> \o q
Lock(q, who) == Append(q, who)
HoldsLockAlways(q, who) == TRUE
HoldsLock(q, who) == q # <<>> /\ Head(q) = who

Queue == IF IsSome(state) THEN Unwrap(state).event_queue ELSE <<>>

\* `if let Some(ref mut state) = *state { state.event_queue.push(ev) }`
PushEventBuffered(st, ev) ==
    IF IsSome(st) THEN Some([Unwrap(st) EXCEPT !.event_queue = Append(@, ev)])
    ELSE Some([NewState EXCEPT !.event_queue = <<ev>>])
PushEvent(st, ev) ==
    IF IsSome(st) THEN Some([Unwrap(st) EXCEPT !.event_queue = Append(@, ev)]) ELSE st

\* Line 245-250 ran in the constructor; line 70: the cell starts as None.
Init ==
    /\ state = None
    /\ GLOBAL = Some("glarea")
    /\ guiPc = "idle"
    /\ frame = NoFrame
    /\ term = NewTerm
    /\ resize_chan = <<>>
    /\ lockQ = <<>>
    /\ worker = "none"
    /\ lingering = FALSE
    /\ idleTasks = 0
    /\ redraw = FALSE
    /\ last = <<"init">>


\* ------------------------------------------------------------ lifecycle
\* realize failing only after the worker was spawned
RealizeFailAfterSpawn ==
    /\ guiPc = "idle"
    /\ state = None
    /\ worker' = "run"
    /\ \E aborts \in BOOLEAN :
          /\ guiPc' = IF aborts THEN "aborted" ELSE "idle"
          /\ lingering' = IF aborts THEN FALSE ELSE lingering
          /\ last' = <<"realize_failed", [aborted |-> aborts]>>
    /\ UNCHANGED <<state, GLOBAL, frame, term, resize_chan, lockQ, idleTasks, redraw>>

\* Lines 72-95 when Display::new returns Err: expect() panics inside the
\* signal handler, before line 97.  A panic in a handler called from C either
\* aborts the process (every thread dies, nothing runs any more) or unwinds
\* out of the handler, which drops the borrow of the cell.
RealizeFail ==
    /\ guiPc = "idle"
    /\ state = None
    /\ \E aborts \in BOOLEAN :
          /\ guiPc' = IF aborts THEN "aborted" ELSE "idle"
          /\ lingering' = IF aborts THEN FALSE ELSE lingering
          /\ last' = <<"realize_failed", [aborted |-> aborts]>>
    /\ UNCHANGED <<state, GLOBAL, frame, term, resize_chan, lockQ, worker, idleTasks,
                   redraw>>

\* realize publishing the State before the worker is spawned
RealizeBeginPublishesEarly ==
    /\ guiPc = "idle"
    /\ state = None
    /\ guiPc' = "realize"
    /\ state' = Some([event_queue |-> <<>>, config |-> TRUE, display |-> TRUE,
                      terminal |-> TRUE, pty |-> TRUE, loop_notifier |-> TRUE])
    /\ term' = [dirty |-> FALSE, next_title |-> FALSE]
    /\ resize_chan' = <<>>
    /\ lockQ' = <<>>
    /\ worker' = "run"
    /\ last' = <<"realize_begin">>
    /\ UNCHANGED <<GLOBAL, frame, lingering, idleTasks, redraw>>

\* Lines 72-110: realize up to and including event_loop.spawn.  The cell is
\* mutably borrowed and still None; the worker is already running.
RealizeBegin ==
    /\ guiPc = "idle"
    /\ state = None
    /\ guiPc' = "realize"
    /\ term' = NewTerm
    /\ resize_chan' = <<>>
    /\ lockQ' = <<>>
    /\ worker' = "run"
    /\ last' = <<"realize_begin">>
    /\ UNCHANGED <<state, GLOBAL, frame, lingering, idleTasks, redraw>>

\* Lines 112-117: *state = Some(State { .. }) and the borrow ends.
RealizePublish ==
    /\ guiPc = "realize"
    /\ state' = Some(NewState)
    /\ guiPc' = "idle"
    /\ last' = <<"realize">>
    /\ UNCHANGED <<GLOBAL, frame, term, resize_chan, lockQ, worker, lingering, idleTasks, redraw>>

\* Lines 52-59: dropping a State drops its fields in declaration order.
DropOrder == <<"config", "display", "terminal", "pty", "loop_notifier", "event_queue">>

\* unrealize that also empties the active-widget slot
UnrealizeClearsSlot ==
    /\ guiPc = "idle"
    /\ IsSome(state)
    /\ state' = None
    /\ GLOBAL' = None
    /\ term' = [dirty |-> FALSE, next_title |-> FALSE]
    /\ resize_chan' = <<>>
    /\ lockQ' = <<>>
    /\ worker' = "none"
    /\ lingering' = TRUE
    /\ last' = <<"unrealize", [dropped |-> DropOrder]>>
    /\ UNCHANGED <<guiPc, frame, idleTasks, redraw>>

\* Lines 119-122: *state = None drops the State, field by field.  The worker keeps its own
\* handle on the terminal and lingers until it notices its channel closed.
Unrealize ==
    /\ guiPc = "idle"
    /\ IsSome(state)
    /\ state' = None
    /\ term' = NewTerm
    /\ resize_chan' = <<>>
    /\ lockQ' = <<>>
    /\ worker' = "none"
    /\ lingering' = TRUE
    /\ last' = <<"unrealize", [dropped |-> DropOrder]>>
    /\ UNCHANGED <<GLOBAL, guiPc, frame, idleTasks, redraw>>

\* ------------------------------------------------------------ render tick
\* The order in which `event_queue.drain(..)` yields the events
RECURSIVE Reverse(_)
Reverse(s) == IF s = <<>> THEN <<>> ELSE Append(Reverse(Tail(s)), Head(s))
DrainReversed(q) == Reverse(q)
Drain(q) == q

\* Lines 129-154: one iteration of the loop.  acc holds the terminal, the
\* buffers sent to loop_notifier and the sizes sent on the resize channel.
ApplyEventResizeClean(acc, ev) ==
    LET tag == ev[1]
        v == ev[2]
        acc1 == [acc EXCEPT !.applied = Append(@, ev)]
    IN CASE tag = "CharInput" -> [acc1 EXCEPT !.sent = Append(@, CharBytes(v))]
         [] tag = "StrInput" -> [acc1 EXCEPT !.sent = Append(@, StrBytes(v))]
         [] tag = "WindowResized" -> [acc1 EXCEPT !.resizes = Append(@, v)]
         [] tag = "ChangeFontSize" -> [acc1 EXCEPT !.term.dirty = TRUE]
         [] tag = "ResetFontSize" -> [acc1 EXCEPT !.term.dirty = TRUE]
ApplyEvent(acc, ev) ==
    LET tag == ev[1]
        v == ev[2]
        acc1 == [acc EXCEPT !.applied = Append(@, ev)]
    IN CASE tag = "CharInput" -> [acc1 EXCEPT !.sent = Append(@, CharBytes(v))]
         [] tag = "StrInput" -> [acc1 EXCEPT !.sent = Append(@, StrBytes(v))]
         [] tag = "WindowResized" ->
                [acc1 EXCEPT !.resizes = Append(@, v), !.term.dirty = TRUE]
         [] tag = "ChangeFontSize" -> [acc1 EXCEPT !.term.dirty = TRUE]
         [] tag = "ResetFontSize" -> [acc1 EXCEPT !.term.dirty = TRUE]

RECURSIVE ApplyEvents(_, _)
ApplyEvents(acc, evs) ==
    IF evs = <<>> THEN acc ELSE ApplyEvents(ApplyEvent(acc, Head(evs)), Tail(evs))

\* What a render callback that found the cell empty did: it took no lock,
\* applied no event, sent no buffer and no size, set no title, drew nothing.
NoRender ==
    [present |-> FALSE, locked |-> FALSE, applied |-> 0, sent |-> 0,
     resizes |-> 0, titled |-> FALSE, drew |-> FALSE]

\* Line 126: `if let Some(ref mut state) = *state`
RenderAlways(st) == TRUE
RenderSeesState(st) == IsSome(st)

\* Lines 124-127: the render callback starts; with a State it asks for the
\* terminal lock, without one it returns at once (line 169).
RenderEnter ==
    /\ guiPc = "idle"
    /\ redraw' = FALSE
    /\ IF RenderSeesState(state)
       THEN /\ guiPc' = "render"
            /\ lockQ' = Lock(lockQ, "gui")
            /\ last' = <<"render_enter">>
       ELSE /\ last' = <<"render", NoRender>>
            /\ UNCHANGED <<guiPc, lockQ>>
    /\ UNCHANGED <<state, GLOBAL, frame, term, resize_chan, worker, lingering, idleTasks>>

\* The guard `terminal` (line 127) after the loop of lines 128-155: it is
\* still alive, the lock stays held.
GuardAfterLoopDropped(q) == Tail(q)
GuardAfterLoop(q) == q

\* Lines 127-155 once lock() has returned: drain the queue and apply every
\* event, sending buffers to the notifier and sizes on the resize channel.
RenderDrain ==
    /\ guiPc = "render"
    /\ HoldsLock(lockQ, "gui")
    /\ LET acc == ApplyEvents([term |-> term, applied |-> <<>>, sent |-> <<>>,
                               resizes |-> <<>>], Drain(Queue))
       IN /\ state' = IF IsSome(state)
                      THEN Some([Unwrap(state) EXCEPT !.event_queue = <<>>])
                      ELSE state
          /\ term' = acc.term
          /\ resize_chan' = resize_chan \o acc.resizes
          /\ frame' = [late |-> frame.late, mutated |-> term.dirty,
                       applied |-> acc.applied, sent |-> acc.sent,
                       resizes |-> acc.resizes]
    /\ lockQ' = GuardAfterLoop(lockQ)
    /\ guiPc' = "drained"
    /\ last' = <<"render_drain">>
    /\ UNCHANGED <<GLOBAL, worker, lingering, idleTasks, redraw>>

\* Lines 156-169: take the title, draw if the terminal needs it (draw
\* consumes the guard and clears dirty, handle_resize empties the resize
\* channel); the guard is gone when the callback returns.
RenderDraw ==
    /\ guiPc = "drained"
    /\ HoldsLock(lockQ, "gui")
    /\ LET titled == term.next_title
           needs_draw == term.dirty
       IN /\ term' = [term EXCEPT !.next_title = FALSE,
                                  !.dirty = IF needs_draw THEN FALSE ELSE @]
          /\ resize_chan' = IF needs_draw THEN <<>> ELSE resize_chan
          /\ last' = <<"render",
                       [present |-> TRUE, locked |-> TRUE,
                        applied |-> Len(frame.applied), sent |-> Len(frame.sent),
                        resizes |-> Len(frame.resizes),
                        titled |-> titled, drew |-> needs_draw]>>
    /\ lockQ' = Tail(lockQ)
    /\ guiPc' = "idle"
    /\ frame' = NoFrame
    /\ UNCHANGED <<state, GLOBAL, worker, lingering, idleTasks, redraw>>


\* ------------------------------------------------------- input callbacks
HasRoom(n) == Len(Queue) + n <= MaxQueue

\* Lines 201-208, the part on the cell: the commit handler pushes StrInput(s).
OnCommit(st, s) == PushEvent(st, StrInput(s))

\* im.filter_keypress(event) (lines 183, 197): while it runs the input method
\* may emit its commit signal, whose handler (lines 201-208) then runs inside
\* the call, once per committed text.
RECURSIVE FilterKeypress(_, _)
FilterKeypress(st, commits) ==
    IF commits = <<>> THEN st
    ELSE FilterKeypress(OnCommit(st, Head(commits)), Tail(commits))

\* The borrow_mut() calls on the cell, and the drops of their guards, that
\* the commit handler makes (lines 203-208)
CommitBorrows == <<"borrow_mut", "drop">>

\* ... and those made inside one im.filter_keypress call
FilterBorrows(commits) == Flatten([i \in 1..Len(commits) |-> CommitBorrows])

\* ... and those of the key-press handler: the filter runs at line 183, the
\* handler's own borrow_mut() is at line 188 and lasts to line 194
KeyPressBorrowsFirst(consumed, commits) ==
    <<"borrow_mut">> \o FilterBorrows(commits) \o <<"drop">>
KeyPressBorrows(consumed, commits) ==
    FilterBorrows(commits) \o (IF consumed THEN <<>> ELSE <<"borrow_mut", "drop">>)

\* ... and those of the key-release handler (lines 196-199)
KeyReleaseBorrows(commits) == FilterBorrows(commits)

\* RefCell::borrow_mut panics when the cell is already borrowed.
RECURSIVE BorrowPanics(_, _)
BorrowPanics(ops, borrowed) ==
    IF ops = <<>> THEN FALSE
    ELSE IF Head(ops) = "borrow_mut" THEN borrowed \/ BorrowPanics(Tail(ops), TRUE)
    ELSE BorrowPanics(Tail(ops), FALSE)

\* Lines 183-191: what the key-press handler itself does to the cell
KeyPressPushAlways(st, consumed, kv) == PushEvent(st, CharInput(KeyChar(kv)))
KeyPressPush(st, consumed, kv) ==
    IF consumed THEN st ELSE PushEvent(st, CharInput(KeyChar(kv)))

\* Lines 182-194
KeyPress ==
    /\ guiPc = "idle"
    /\ \E consumed \in BOOLEAN, commits \in ImCommits,
          kv \in Keyvals :
          /\ HasRoom(Len(commits) + (IF consumed THEN 0 ELSE 1))
          /\ LET panics == BorrowPanics(KeyPressBorrows(consumed, commits), FALSE)
             IN /\ state' = IF panics THEN state
                            ELSE KeyPressPush(FilterKeypress(state, commits), consumed, kv)
                /\ redraw' = (redraw \/ (~panics /\ (commits # <<>> \/ ~consumed)))
                /\ last' = <<"key_press",
                             [consumed |-> consumed, commits |-> commits,
                              char |-> IF consumed THEN None ELSE Some(KeyChar(kv)),
                              inhibit |-> consumed, panicked |-> panics]>>
    /\ UNCHANGED <<GLOBAL, guiPc, frame, term, resize_chan, lockQ, worker, lingering, idleTasks>>

\* Lines 196-199: what the key-release handler itself does to the cell
KeyReleasePushChar(st) == PushEvent(st, CharInput(KeyChar(97)))
KeyReleasePush(st) == st

\* Lines 196-199
KeyRelease ==
    /\ guiPc = "idle"
    /\ \E consumed \in BOOLEAN, commits \in ImCommits :
          /\ HasRoom(Len(commits))
          /\ LET panics == BorrowPanics(KeyReleaseBorrows(commits), FALSE)
             IN /\ state' = IF panics THEN state
                            ELSE KeyReleasePush(FilterKeypress(state, commits))
                /\ redraw' = (redraw \/ (~panics /\ commits # <<>>))
                /\ last' = <<"key_release",
                             [consumed |-> consumed, commits |-> commits,
                              inhibit |-> TRUE, panicked |-> panics]>>
    /\ UNCHANGED <<GLOBAL, guiPc, frame, term, resize_chan, lockQ, worker, lingering, idleTasks>>

\* Lines 201-208: a commit signal the input method emits on its own
ImCommit ==
    /\ guiPc = "idle"
    /\ \E s \in ImStrings :
          /\ HasRoom(1)
          /\ state' = OnCommit(state, s)
          /\ last' = <<"im_commit", [s |-> s]>>
    /\ redraw' = TRUE
    /\ UNCHANGED <<GLOBAL, guiPc, frame, term, resize_chan, lockQ, worker, lingering, idleTasks>>

\* Lines 172-178
Resize ==
    /\ guiPc = "idle"
    /\ \E sz \in Sizes :
          /\ HasRoom(1)
          /\ state' = PushEvent(state, WindowResized(AsU32(sz[1]), AsU32(sz[2])))
          /\ last' = <<"resize", [w |-> sz[1], h |-> sz[2]]>>
    /\ redraw' = TRUE
    /\ UNCHANGED <<GLOBAL, guiPc, frame, term, resize_chan, lockQ, worker, lingering, idleTasks>>

\* Lines 217-222: the events one drop pushes
DropEvents(uris, text) ==
    IF Len(uris) > 0 THEN <<StrInput(Join([i \in 1..Len(uris) |-> UriToPath(uris[i])]))>>
    ELSE IF IsSome(text) THEN <<StrInput(TextToPath(Unwrap(text)))>>
    ELSE <<>>

RECURSIVE PushAll(_, _)
PushAll(st, evs) ==
    IF evs = <<>> THEN st ELSE PushAll(PushEvent(st, Head(evs)), Tail(evs))

\* Lines 214-224.  text is what data.get_text() returns; the handler calls
\* it only when there are no URIs.
DragDataReceived ==
    /\ guiPc = "idle"
    /\ \E uris \in DropUris :
       \E text \in (IF Len(uris) > 0 THEN {None} ELSE DropTexts) :
          /\ HasRoom(1)
          /\ state' = PushAll(state, DropEvents(uris, text))
          /\ last' = <<"drag_data_received", [uris |-> uris, text |-> text]>>
    /\ UNCHANGED <<GLOBAL, guiPc, frame, term, resize_chan, lockQ, worker, lingering,
                   idleTasks, redraw>>

\* Lines 226-232
ScaleFactorNotify ==
    /\ guiPc = "idle"
    /\ redraw' = TRUE
    /\ last' = <<"scale_factor_notify">>
    /\ UNCHANGED <<state, GLOBAL, guiPc, frame, term, resize_chan, lockQ, worker, lingering,
                   idleTasks>>

\* Lines 235-238
FocusIn ==
    /\ guiPc = "idle"
    /\ last' = <<"focus_in">>
    /\ UNCHANGED <<state, GLOBAL, guiPc, frame, term, resize_chan, lockQ, worker, lingering,
                   idleTasks, redraw>>

\* Lines 239-242
FocusOut ==
    /\ guiPc = "idle"
    /\ last' = <<"focus_out">>
    /\ UNCHANGED <<state, GLOBAL, guiPc, frame, term, resize_chan, lockQ, worker, lingering,
                   idleTasks, redraw>>

\* The embedder pushes an event through the handle the constructor returns
\* (line 58: `pub event_queue`, line 252).
EmbedderPush ==
    /\ guiPc = "idle"
    /\ IsSome(state)
    /\ \E ev \in EmbedderEvents :
          /\ HasRoom(1)
          /\ state' = PushEvent(state, ev)
          /\ last' = <<"embedder_push", [ev |-> ev]>>
    /\ UNCHANGED <<GLOBAL, guiPc, frame, term, resize_chan, lockQ, worker, lingering,
                   idleTasks, redraw>>

\* ---------------------------------------------------------- wakeup bridge
\* Lines 39-49: notify() queues one closure on the main loop.
Notify(n) == n + 1

\* Line 47: glib::Continue(false), the closure is not run again.
IdleContinueTrue == TRUE
IdleContinue == FALSE

\* Lines 42-47: the closure runs once on the GUI thread and calls queue_draw
\* on the widget in GLOBAL, if there is one.
IdleRun ==
    /\ guiPc = "idle"
    /\ idleTasks > 0
    /\ idleTasks' = IF IdleContinue THEN idleTasks ELSE idleTasks - 1
    /\ redraw' = (redraw \/ IsSome(GLOBAL))
    /\ last' = <<"idle_task", [queue_draw |-> IsSome(GLOBAL), realized |-> IsSome(state)]>>
    /\ UNCHANGED <<state, GLOBAL, guiPc, frame, term, resize_chan, lockQ, worker, lingering>>

\* ------------------------------------------------------------- I/O worker
\* The worker reads PTY output, takes the terminal lock, applies the output
\* and calls notify() for it, before or after it releases the lock.
\* The worker asks for the terminal lock.
WorkerRequestLock ==
    /\ worker = "run"
    /\ worker' = "wait"
    /\ lockQ' = Lock(lockQ, "worker")
    /\ last' = <<"worker">>
    /\ UNCHANGED <<state, GLOBAL, guiPc, frame, term, resize_chan, lingering, idleTasks, redraw>>

\* The worker holds the lock and applies parsed PTY output to the terminal.
WorkerMutate ==
    /\ worker = "wait"
    /\ HoldsLock(lockQ, "worker")
    /\ worker' = "locked"
    /\ \E title \in BOOLEAN :
          term' = [term EXCEPT !.dirty = TRUE, !.next_title = @ \/ title]
    /\ last' = <<"worker">>
    /\ UNCHANGED <<state, GLOBAL, guiPc, frame, resize_chan, lockQ, lingering, idleTasks, redraw>>

\* The worker of the current State calls notify() for the output it applied.
WorkerNotify ==
    /\ worker \in {"locked", "owes"}
    /\ idleTasks < MaxIdle
    /\ worker' = IF worker = "locked" THEN "notified" ELSE "run"
    /\ idleTasks' = Notify(idleTasks)
    /\ frame' = IF guiPc = "render" THEN [frame EXCEPT !.late = TRUE] ELSE frame
    /\ last' = <<"worker">>
    /\ UNCHANGED <<state, GLOBAL, guiPc, term, resize_chan, lockQ, lingering, redraw>>

\* The worker releases the lock.
WorkerUnlock ==
    /\ worker \in {"locked", "notified"}
    /\ worker' = IF worker = "locked" THEN "owes" ELSE "run"
    /\ lockQ' = Tail(lockQ)
    /\ last' = <<"worker">>
    /\ UNCHANGED <<state, GLOBAL, guiPc, frame, term, resize_chan, lingering, idleTasks, redraw>>

\* A worker whose State was dropped calls notify().
LingerNotify ==
    /\ lingering
    /\ idleTasks < MaxIdle
    /\ idleTasks' = Notify(idleTasks)
    /\ last' = <<"worker">>
    /\ UNCHANGED <<state, GLOBAL, guiPc, frame, term, resize_chan, lockQ, worker, lingering, redraw>>

\* The last lingering worker sees its channel closed and exits.
LingerExit ==
    /\ lingering
    /\ lingering' = FALSE
    /\ last' = <<"worker">>
    /\ UNCHANGED <<state, GLOBAL, guiPc, frame, term, resize_chan, lockQ, worker, idleTasks, redraw>>

\* ----------------------------------------------------------- specification
Next ==
    \/ RealizeFail
    \/ RealizeBegin
    \/ RealizePublish
    \/ Unrealize
    \/ RenderEnter
    \/ RenderDrain
    \/ RenderDraw
    \/ KeyPress
    \/ KeyRelease
    \/ ImCommit
    \/ Resize
    \/ DragDataReceived
    \/ ScaleFactorNotify
    \/ FocusIn
    \/ FocusOut
    \/ EmbedderPush
    \/ IdleRun
    \/ WorkerNotify
    \/ LingerNotify
    \/ LingerExit
    \/ WorkerRequestLock
    \/ WorkerMutate
    \/ WorkerUnlock

Spec == Init /\ [][Next]_vars

\* The contention for the terminal mutex: the lifecycle, the render tick,
\* the wakeup bridge and the worker, with the key-press, resize and scale
\* callbacks as the sources of events and frames.  The callbacks left out
\* (key release, IM commit, drag-drop, focus, embedder) run only while the
\* GUI thread is idle and change only the queue, the pending-frame flag and
\* `last`, none of which the mutex reads.
LockNext ==
    \/ RealizeBegin
    \/ RealizePublish
    \/ Unrealize
    \/ RenderEnter
    \/ RenderDrain
    \/ RenderDraw
    \/ Resize
    \/ KeyPress
    \/ RealizeFail
    \/ ScaleFactorNotify
    \/ IdleRun
    \/ WorkerRequestLock
    \/ WorkerMutate
    \/ WorkerNotify
    \/ WorkerUnlock
    \/ LingerNotify
    \/ LingerExit

\* Fairness: the GUI thread goes on with its render callback once lock() has
\* returned, and the worker thread goes on once the mutex is granted to it.
\* Nothing is assumed about how often frames, input or PTY output arrive.
LockSpec ==
    /\ Init /\ [][LockNext]_vars
    /\ WF_vars(RenderDrain) /\ WF_vars(RenderDraw) /\ WF_vars(WorkerMutate)


\* ------------------------------------------------- vocabulary of the claims
IsByte(b) == b >= 0 /\ b <= 255
IsCont(b) == b >= 128 /\ b <= 191

\* Number of bytes UTF-8 needs for a code point: 7, 11, 16 and 21 payload bits
Utf8Width(c) == CHOOSE n \in 1..4 :
    /\ c < (CASE n = 1 -> 128 [] n = 2 -> 2048 [] n = 3 -> 65536 [] n = 4 -> 2097152)
    /\ n > 1 => c >= (CASE n = 2 -> 128 [] n = 3 -> 2048 [] n = 4 -> 65536)

\* The code points a byte buffer spells as UTF-8; <<-1>> marks a buffer that
\* is not well-formed.
RECURSIVE Utf8Decode(_)
Utf8Decode(b) ==
    IF b = <<>> THEN <<>>
    ELSE LET h == b[1]
             n == IF ~IsByte(h) THEN 0
                  ELSE IF h < 128 THEN 1
                  ELSE IF h >= 192 /\ h < 224 THEN 2
                  ELSE IF h >= 224 /\ h < 240 THEN 3
                  ELSE IF h >= 240 /\ h < 248 THEN 4
                  ELSE 0
         IN IF n = 0 \/ Len(b) < n \/ \E i \in 2..n : ~IsCont(b[i]) THEN <<-1>>
            ELSE LET cp == CASE n = 1 -> h
                             [] n = 2 -> (h - 192) * 64 + (b[2] - 128)
                             [] n = 3 -> (h - 224) * 4096 + (b[2] - 128) * 64 + (b[3] - 128)
                             [] n = 4 -> (h - 240) * 262144 + (b[2] - 128) * 4096
                                         + (b[3] - 128) * 64 + (b[4] - 128)
                     rest == Utf8Decode(SubSeq(b, n + 1, Len(b)))
                 IN IF rest = <<-1>> THEN rest ELSE <<cp>> \o rest

IsInput(ev) == ev[1] \in {"CharInput", "StrInput"}

\* The CharInput and StrInput events of a queue, in queue order
RECURSIVE InputsOf(_)
InputsOf(q) ==
    IF q = <<>> THEN <<>>
    ELSE (IF IsInput(Head(q)) THEN <<Head(q)>> ELSE <<>>) \o InputsOf(Tail(q))

\* The text an input event carries
TextOf(ev) == IF ev[1] = "CharInput" THEN <<ev[2]>> ELSE ev[2]

\* The WindowResized sizes of a queue, in queue order
RECURSIVE ResizesOf(_)
ResizesOf(q) ==
    IF q = <<>> THEN <<>>
    ELSE (IF Head(q)[1] = "WindowResized" THEN <<Head(q)[2]>> ELSE <<>>) \o ResizesOf(Tail(q))

\* The render tick has applied the queue; frame holds what it applied and sent
Drained == guiPc = "drained"
InputOps == {"key_press", "key_release", "im_commit", "resize", "drag_data_received"}
StrInputs(texts) == [i \in 1..Len(texts) |-> StrInput(texts[i])]
FullyBuilt(st) ==
    /\ st.config /\ st.display /\ st.terminal /\ st.pty /\ st.loop_notifier
    /\ st.event_queue = <<>>

\* ------------------------------------------------------------------ claims
\* C1: a render tick with the State present applies every event that was in
\* the queue when the tick started, in push order; the buffers it sends to
\* the notifier spell, in the same order, the texts of the CharInput and
\* StrInput events; the sizes it sends are those of the WindowResized events
\* in order; and the queue is empty when the tick ends.  The queue does not
\* change between the start of the tick and the moment the lock is obtained,
\* nor between the drain and the end of the tick.
C1_RenderDrainsFifo ==
    /\ [][guiPc = "render" /\ guiPc' = "render" => state' = state]_vars
    /\ [][guiPc = "render" /\ guiPc' # "render" =>
            /\ guiPc' = "drained"
            /\ frame'.applied = Queue
            /\ Len(frame'.sent) = Len(InputsOf(Queue))
            /\ \A i \in 1..Len(frame'.sent) :
                  Utf8Decode(frame'.sent[i]) = TextOf(InputsOf(Queue)[i])
            /\ frame'.resizes = ResizesOf(Queue)
            /\ IsSome(state') /\ Unwrap(state').event_queue = <<>>]_vars
    /\ [][guiPc = "drained" =>
            /\ state' = state
            /\ guiPc' = "drained" => frame' = frame
            /\ guiPc' # "drained" =>
                  /\ guiPc' = "idle"
                  /\ last'[1] = "render" /\ last'[2].present
                  /\ last'[2].applied = Len(frame.applied)
                  /\ last'[2].sent = Len(frame.sent)
                  /\ last'[2].resizes = Len(frame.resizes)]_vars

\* C1 witness: a tick that applied two different events and sent two
\* different buffers.
C1_Witness ==
    /\ Drained
    /\ Len(frame.applied) >= 2 /\ frame.applied[1] # frame.applied[2]
    /\ Len(frame.sent) >= 2 /\ frame.sent[1] # frame.sent[2]

\* C2: in a render tick every CharInput(c) and StrInput(s) drained gives
\* exactly one buffer; the buffer of CharInput(c) holds only bytes, has the
\* UTF-8 width of c (1 to 4) and decodes to c; the buffer of StrInput(s)
\* holds only bytes and decodes to s.
C2_BuffersAreUtf8 ==
    Drained =>
        LET ins == InputsOf(frame.applied)
            sent == frame.sent
        IN /\ Len(sent) = Len(ins)
           /\ \A i \in 1..Len(ins) :
                 /\ \A k \in 1..Len(sent[i]) : IsByte(sent[i][k])
                 /\ Utf8Decode(sent[i]) = TextOf(ins[i])
                 /\ ins[i][1] = "CharInput" =>
                       /\ Len(sent[i]) = Utf8Width(ins[i][2])
                       /\ Len(sent[i]) \in 1..4

\* C2 witness: a tick that sent the four bytes of U+1F600 for a CharInput
\* and the six bytes of a two-character StrInput.
C2_Witness ==
    /\ Drained
    /\ \E i \in 1..Len(frame.applied) : frame.applied[i] = CharInput(128512)
    /\ \E i \in 1..Len(frame.sent) : frame.sent[i] = <<240, 159, 152, 128>>
    /\ \E i \in 1..Len(frame.sent) : frame.sent[i] = <<228, 189, 160, 229, 165, 189>>

\* C3: a render callback that starts while the State is absent changes
\* nothing but the pending-frame flag: it does not queue for the terminal
\* lock, sends no buffer and no size, takes no title and does not draw.
C3_RenderAbsentNoop ==
    /\ [](state = None => guiPc \notin {"render", "drained"})
    /\ [](last[1] = "render" /\ ~last[2].present => last[2] = NoRender)
    /\ [][guiPc = "idle" /\ state = None /\ last'[1] \in {"render", "render_enter"} =>
            /\ last' = <<"render", NoRender>>
            /\ UNCHANGED <<state, guiPc, term, resize_chan, lockQ, worker, idleTasks>>]_vars

\* C3 witness: a no-op render after an unrealize.
C3_Witness ==
    /\ state = None /\ lingering
    /\ last = <<"render", NoRender>>

\* C4 as claimed: the task scheduled by a notify() that a lingering worker
\* made after unrealize requests no redraw.
C4_Original ==
    [][(state = None /\ lingering /\ last[1] = "worker" /\ idleTasks = 1
        /\ last'[1] = "idle_task") => redraw' = redraw /\ ~last'[2].queue_draw]_vars

\* C4 amended: the active-widget slot is never emptied, so after unrealize
\* the task scheduled by a lingering worker's notify() calls queue_draw once
\* and touches nothing else; a render callback that follows while the State
\* is absent sends nothing and does not draw.
C4_IdleTaskAfterUnrealize ==
    /\ [](GLOBAL = Some("glarea"))
    /\ [][last'[1] = "idle_task" =>
            /\ last'[2].queue_draw /\ redraw'
            /\ idleTasks' = idleTasks - 1
            /\ UNCHANGED <<state, guiPc, term, resize_chan, lockQ, worker>>]_vars
    /\ [][state = None /\ redraw /\ last'[1] = "render" =>
            last'[2].sent = 0 /\ ~last'[2].drew /\ ~redraw']_vars

\* C4 witness: an idle task that ran after unrealize and requested a redraw.
C4_Witness ==
    /\ state = None /\ lingering
    /\ last[1] = "idle_task" /\ last[2].queue_draw /\ ~last[2].realized
    /\ redraw

\* C5: the cell holds either nothing or a State that was published fully
\* built with an empty queue; while realize runs the worker exists and the
\* cell is still empty; and between the start of realize and its publishing
\* step only worker steps happen, so no render tick or idle task runs.
C5_StateAbsentOrBuilt ==
    /\ [](state = None \/ FullyBuilt([Unwrap(state) EXCEPT !.event_queue = <<>>]))
    /\ [](guiPc = "realize" => state = None /\ worker # "none")
    /\ [][guiPc = "realize" => last'[1] \in {"worker", "realize"}]_vars
    /\ [][state = None /\ state' # None =>
            guiPc = "realize" /\ guiPc' = "idle" /\ FullyBuilt(Unwrap(state'))]_vars

\* C5 witness: the worker has called notify() and realize has not published.
C5_Witness == guiPc = "realize" /\ state = None /\ idleTasks > 0


\* C6 as claimed: a key press the input method consumes leaves the queue as
\* it was, is reported as handled, and requests no redraw (none at all when
\* the input method committed nothing during the call).
C6_Original ==
    [][last'[1] = "key_press" /\ last'[2].consumed =>
          /\ state' = state
          /\ last'[2].inhibit
          /\ last'[2].commits = <<>> => redraw' = redraw]_vars

\* C6 amended: for a key press the input method consumes, the key-press
\* handler pushes no CharInput and reports the event as handled; the queue
\* afterwards is the queue before followed by one StrInput per text the input
\* method committed during the filter call, in order (nothing is stored when
\* the State is absent), and a redraw is requested only by such a commit.
C6_ConsumedKeyPress ==
    [][last'[1] = "key_press" /\ last'[2].consumed =>
          /\ last'[2].inhibit
          /\ last'[2].char = None
          /\ IF IsSome(state)
             THEN /\ IsSome(state')
                  /\ Unwrap(state').event_queue = Queue \o StrInputs(last'[2].commits)
             ELSE state' = None
          /\ redraw' = (redraw \/ last'[2].commits # <<>>)
          /\ UNCHANGED <<term, resize_chan, lockQ, idleTasks>>]_vars

\* C6 witness: a consumed key press, with the State present and a non-empty
\* queue, during which the input method committed text.
C6_Witness ==
    /\ last[1] = "key_press" /\ last[2].consumed /\ last[2].commits # <<>>
    /\ IsSome(state) /\ Len(Queue) > Len(last[2].commits)

\* C7 as claimed: a key release leaves the queue as it was and is reported
\* as consumed, whatever the filter returns.
C7_Original ==
    [][last'[1] = "key_release" => state' = state /\ last'[2].inhibit]_vars

\* C7 amended: the key-release handler pushes nothing itself and always
\* reports the event as consumed, whatever the filter returns; the queue
\* afterwards is the queue before followed by one StrInput per text the input
\* method committed during the filter call (nothing when the State is absent).
C7_KeyRelease ==
    [][last'[1] = "key_release" =>
          /\ last'[2].inhibit
          /\ IF IsSome(state)
             THEN /\ IsSome(state')
                  /\ Unwrap(state').event_queue = Queue \o StrInputs(last'[2].commits)
             ELSE state' = None
          /\ redraw' = (redraw \/ last'[2].commits # <<>>)
          /\ UNCHANGED <<term, resize_chan, lockQ, idleTasks>>]_vars

\* C7 witness: a key release the filter did not consume, with the State
\* present and a non-empty queue before it.
C7_Witness ==
    /\ last[1] = "key_release" /\ ~last[2].consumed
    /\ IsSome(state) /\ Len(Queue) > Len(last[2].commits)

\* C8: an input callback (key press, key release, IM commit, resize,
\* drag-drop) that runs while the State is absent leaves the cell empty and
\* touches neither the terminal nor a channel; and the State that a realize
\* publishes into the empty cell has an empty queue.
C8_AbsentInputDropped ==
    /\ [][state = None /\ last'[1] \in InputOps =>
            state' = None /\ UNCHANGED <<term, resize_chan, lockQ, idleTasks>>]_vars
    /\ [][state = None /\ state' # None =>
            last'[1] = "realize" /\ Unwrap(state').event_queue = <<>>]_vars

\* C8 witness: a key press the input method did not consume but answered
\* with a commit, received while the State is absent after an unrealize.
C8_Witness ==
    /\ state = None /\ lingering
    /\ last[1] = "key_press" /\ IsSome(last[2].char) /\ last[2].commits # <<>>

\* C9 as claimed: a drop with zero URIs and no text or an empty text appends
\* no Event.
C9_Original ==
    [][(last'[1] = "drag_data_received" /\ last'[2].uris = <<>>
        /\ last'[2].text \in {None, Some(<<>>)}) => state' = state]_vars

\* What C10 says a dropped URI turns into: surrounding whitespace and the
\* "file://" prefix stripped
ClaimedPath(u) ==
    LET w == Trim(u)
    IN Trim(IF StartsWith(w, FilePrefix) THEN SubSeq(w, Len(FilePrefix) + 1, Len(w)) ELSE w)

\* C10 as claimed: a drop with URIs, the State present, appends exactly one
\* StrInput holding the URIs in order, each stripped of its "file://" prefix
\* and surrounding whitespace, joined by single spaces; no drop appends more
\* than one Event.
C10_Original ==
    [][last'[1] = "drag_data_received" =>
          /\ Len(Queue') <= Len(Queue) + 1
          /\ (IsSome(state) /\ last'[2].uris # <<>>) =>
                Queue' = Append(Queue, StrInput(Join(
                    [i \in 1..Len(last'[2].uris) |-> ClaimedPath(last'[2].uris[i])])))]_vars

\* "/tmp/a.txt /tmp/b.txt"
PathsAB == <<47, 116, 109, 112, 47, 97, 46, 116, 120, 116, 32,
             47, 116, 109, 112, 47, 98, 46, 116, 120, 116>>

DropOfAB(l) == l[1] = "drag_data_received" /\ l[2].uris = <<UriA, UriB>>

\* C11 as claimed: a drop of file:///tmp/a.txt and file:///tmp/b.txt with the
\* State present appends StrInput("/tmp/a.txt /tmp/b.txt"), and the render
\* tick that drains it sends that string as one buffer of 22 bytes.
C11_Original ==
    /\ [][DropOfAB(last') /\ IsSome(state) =>
            Queue' = Append(Queue, StrInput(PathsAB))]_vars
    /\ [][guiPc = "render" /\ guiPc' = "drained" =>
            \A i \in 1..Len(InputsOf(Queue)) :
                InputsOf(Queue)[i] = StrInput(PathsAB) =>
                    frame'.sent[i] = PathsAB /\ Len(frame'.sent[i]) = 22]_vars

\* C11 amended: the same drop appends exactly the one event
\* StrInput("/tmp/a.txt /tmp/b.txt"), and the render tick that drains it sends
\* that string as one buffer of its 21 ASCII bytes.
C11_DropOfTwoUris ==
    /\ [][DropOfAB(last') /\ IsSome(state) =>
            Queue' = Append(Queue, StrInput(PathsAB))]_vars
    /\ [][guiPc = "render" /\ guiPc' = "drained" =>
            /\ Len(frame'.sent) = Len(InputsOf(Queue))
            /\ \A i \in 1..Len(InputsOf(Queue)) :
                  InputsOf(Queue)[i] = StrInput(PathsAB) =>
                      /\ frame'.sent[i] = PathsAB
                      /\ Len(frame'.sent[i]) = 21
                      /\ \A k \in 1..21 : frame'.sent[i][k] < 128]_vars

\* C11 witness: a tick drained the event of such a drop behind another
\* event and sent the 21 bytes.
C11_Witness ==
    /\ Drained
    /\ Len(frame.applied) = 2 /\ frame.applied[1] # frame.applied[2]
    /\ frame.applied[2] = StrInput(PathsAB)
    /\ frame.sent[Len(frame.sent)] = PathsAB

\* q is the front part of r
IsPrefix(q, r) == Len(q) <= Len(r) /\ SubSeq(r, 1, Len(q)) = q

\* C12: a resize callback (w,h) with the State present appends
\* WindowResized(w,h) and requests a redraw; the event stays queued, and the
\* request pending, until a render callback starts; the tick that drains the
\* queue sends the sizes of its WindowResized events, in order, on the resize
\* channel and leaves the terminal dirty, and such a tick finds needs_draw()
\* true and calls draw (the one call of line 166), which leaves the terminal
\* clean and the resize channel empty.
C12_ResizeThenDraw ==
    /\ [][last'[1] = "resize" /\ IsSome(state) =>
            /\ Queue' = Append(Queue, WindowResized(last'[2].w, last'[2].h))
            /\ redraw']_vars
    /\ [][IsSome(state) /\ IsSome(state') /\ guiPc # "render" =>
            IsPrefix(Queue, Queue')]_vars
    /\ [][redraw /\ ~redraw' => last'[1] \in {"render", "render_enter"}]_vars
    /\ [][guiPc = "render" /\ guiPc' = "drained" =>
            /\ frame'.resizes = ResizesOf(Queue)
            /\ resize_chan' = resize_chan \o ResizesOf(Queue)
            /\ ResizesOf(Queue) # <<>> => term'.dirty]_vars
    /\ [][guiPc = "drained" /\ guiPc' = "idle" /\ frame.resizes # <<>> =>
            /\ last'[1] = "render" /\ last'[2].drew
            /\ last'[2].resizes = Len(frame.resizes)
            /\ ~term'.dirty /\ resize_chan' = <<>>]_vars

\* C12 witness: a tick that drained one WindowResized(800,600), sent
\* (800,600) and found the terminal dirty for that reason alone.
C12_Witness ==
    /\ Drained
    /\ frame.applied = <<WindowResized(800, 600)>>
    /\ resize_chan = <<<<800, 600>>>>
    /\ ~frame.mutated /\ term.dirty

\* C13: every notify() adds exactly one task to the main loop and changes
\* nothing else, whatever the GUI thread is doing; every task runs on the
\* idle GUI thread, is removed by its run, calls queue_draw exactly when the
\* active-widget slot holds a widget, and changes nothing else.
C13_NotifySchedulesOneTask ==
    /\ [][idleTasks' > idleTasks =>
            /\ idleTasks' = idleTasks + 1
            /\ last'[1] = "worker"
            /\ UNCHANGED <<state, GLOBAL, guiPc, term, resize_chan, lockQ, lingering,
                           redraw>>]_vars
    /\ [][idleTasks' < idleTasks \/ last'[1] = "idle_task" =>
            /\ last'[1] = "idle_task"
            /\ guiPc = "idle" /\ guiPc' = "idle"
            /\ idleTasks' = idleTasks - 1
            /\ last'[2].queue_draw = IsSome(GLOBAL)
            /\ redraw' = (redraw \/ IsSome(GLOBAL))
            /\ UNCHANGED <<state, GLOBAL, frame, term, resize_chan, lockQ, worker,
                           lingering>>]_vars

\* C13 witness: the worker called notify() while the GUI thread was inside
\* the render callback, and the task is waiting.
C13_Witness == guiPc = "render" /\ frame.late /\ idleTasks > 0

\* C14: a realize whose Display construction fails leaves the cell empty and
\* creates no terminal, no lock request and no worker; if the process
\* survives the panic, render callbacks stay no-ops while the cell is empty;
\* if it does not, nothing runs any more.
C14_FailedRealizePublishesNothing ==
    /\ [][last'[1] = "realize_failed" =>
            /\ state = None /\ state' = None
            /\ worker' = "none"
            /\ term' = NewTerm /\ lockQ' = <<>> /\ resize_chan' = <<>>
            /\ guiPc' = IF last'[2].aborted THEN "aborted" ELSE "idle"]_vars
    /\ [][guiPc # "aborted"]_vars
    /\ [][state = None /\ last'[1] = "render" =>
            last'[2] = NoRender /\ state' = None /\ worker' = "none"]_vars

\* C14 witness: a realize has just failed without killing the process, with
\* a frame pending; the cell is empty and no worker exists.
C14_Witness ==
    /\ last = <<"realize_failed", [aborted |-> FALSE]>>
    /\ state = None /\ worker = "none" /\ redraw

\* who is in the queue of the mutex
InLockQ(who) == \E i \in 1..Len(lockQ) : lockQ[i] = who

\* C15: from the moment a render tick has the lock until it ends, the GUI
\* thread is the holder and the worker is not inside the lock; the queue is
\* drained with the lock held and the lock is kept; between the drain and
\* the draw nothing changes the terminal; the tick ends, drawing or not, by
\* releasing the lock, and whenever no render callback is running the GUI
\* thread neither holds nor awaits the lock.
C15_LockHeldAcrossTick ==
    /\ [](guiPc = "drained" =>
            /\ lockQ # <<>> /\ Head(lockQ) = "gui"
            /\ worker \notin {"locked", "notified"})
    /\ [](guiPc \notin {"render", "drained"} => ~InLockQ("gui"))
    /\ [][guiPc = "render" /\ guiPc' = "drained" =>
            /\ lockQ # <<>> /\ Head(lockQ) = "gui"
            /\ worker \notin {"locked", "notified"}
            /\ lockQ' = lockQ]_vars
    /\ [][guiPc = "drained" /\ guiPc' = "drained" => term' = term /\ state' = state]_vars
    /\ [][guiPc = "drained" /\ guiPc' # "drained" =>
            /\ guiPc' = "idle" /\ last'[1] = "render"
            /\ lockQ' = Tail(lockQ) /\ ~InLockQ("gui")']_vars

\* C15 witness: a tick has applied two events and not yet drawn; the worker
\* asked for the lock meanwhile and waits behind the GUI thread.
C15_Witness ==
    /\ Drained /\ Len(frame.applied) = 2
    /\ worker = "wait" /\ lockQ = <<"gui", "worker">>

\* C16: the mutex serves in arrival order: its queue changes only by a new
\* request joining at the end or by the holder leaving at the front (or by
\* the terminal being replaced or dropped); a render tick that starts while
\* the worker waits queues behind the worker; and a waiting worker obtains
\* the lock, unless the State is dropped first, however many render ticks
\* are started.
C16_WorkerGetsLock ==
    /\ [][\/ lockQ' = lockQ
          \/ lockQ # <<>> /\ lockQ' = Tail(lockQ)
          \/ \E who \in {"gui", "worker"} : ~InLockQ(who) /\ lockQ' = Append(lockQ, who)
          \/ last'[1] \in {"realize_begin", "unrealize"} /\ lockQ' = <<>>]_vars
    /\ [][worker = "wait" /\ guiPc = "idle" /\ guiPc' = "render" =>
            lockQ' = Append(lockQ, "gui") /\ InLockQ("worker")]_vars
    /\ [](worker = "wait" => InLockQ("worker"))
    /\ (worker = "wait") ~> (worker = "locked" \/ state = None)

\* C16 witness: the worker holds the lock and a render tick that asked for
\* it later waits behind it.
C16_Witness ==
    /\ worker = "locked" /\ guiPc = "render"
    /\ lockQ = <<"worker", "gui">>

\* Where x stands in a sequence without repetitions
Pos(seq, x) == CHOOSE i \in 1..Len(seq) : seq[i] = x

\* C17 as claimed: unrealize releases the notifier first, then the PTY, then
\* the terminal handle.
C17_Original ==
    [][last'[1] = "unrealize" =>
          LET d == last'[2].dropped
          IN /\ Pos(d, "loop_notifier") < Pos(d, "pty")
             /\ Pos(d, "pty") < Pos(d, "terminal")]_vars

\* C18 as claimed: a render tick that reads a terminal mutation of the
\* worker started after the worker's notify() for that mutation: when the
\* tick obtains the lock and finds the mutation, the notify() has been
\* called, and it was not called while the tick was already under way.
C18_Original ==
    Drained /\ frame.mutated => worker # "owes" /\ ~frame.late

\* C18 amended: the terminal changes only in a step of the thread that holds
\* the lock (or when realize and unrealize replace it); a render tick reads
\* the terminal only from the moment it holds the lock, when the worker is
\* not inside it, and what it finds there is whatever the worker applied
\* before releasing the lock, whether or not notify() was called before the
\* tick started; and the worker calls notify() once for every mutation.
C18_MutationSeenUnderLock ==
    /\ [][term' # term =>
            \/ worker = "wait" /\ worker' = "locked" /\ Head(lockQ) = "worker"
            \/ guiPc \in {"render", "drained"} /\ guiPc' # guiPc /\ Head(lockQ) = "gui"
            \/ last'[1] \in {"realize_begin", "unrealize"}]_vars
    /\ [][guiPc = "render" /\ guiPc' = "drained" =>
            /\ Head(lockQ) = "gui"
            /\ worker \notin {"locked", "notified"}
            /\ frame'.mutated = term.dirty
            /\ frame'.late = frame.late]_vars
    /\ [][(worker \in {"locked", "owes"} /\ worker' \in {"notified", "run"}) =>
            (idleTasks' = idleTasks + 1)]_vars
    /\ [][worker = "wait" /\ worker' \notin {"wait", "none"} => worker' = "locked"]_vars

\* C18 witness: a tick holds the lock and has read a mutation for which the
\* worker has not called notify() yet.
C18_Witness ==
    /\ Drained /\ frame.mutated
    /\ worker = "owes" /\ idleTasks = 0 /\ ~frame.late

\* C19 as claimed: every input callback that appends an Event has requested
\* a redraw when it returns.
C19_Original ==
    [][(last'[1] \in InputOps /\ IsSome(state) /\ IsSome(state')
        /\ Len(Queue') > Len(Queue)) => redraw']_vars

\* C20: no key-press or key-release handler meets an already-borrowed cell,
\* neither in its own borrow_mut() nor in that of a commit handler running
\* inside its filter call; a callback starts only when no other callback is
\* running, so it never meets the borrow that realize and render hold for
\* their whole length; and the only panic that can kill the process is the
\* one of a failed Display construction.
C20_NoDoubleBorrow ==
    /\ [](last[1] \in {"key_press", "key_release"} => ~last[2].panicked)
    /\ [][last'[1] \in {"key_press", "key_release"} =>
            /\ IsSome(state) => IsSome(state')
            /\ IsSome(state) =>
                  Len(Queue') = Len(Queue) + Len(last'[2].commits)
                                + (IF last'[1] = "key_press" /\ ~last'[2].consumed
                                   THEN 1 ELSE 0)]_vars
    /\ [][guiPc # "idle" =>
            last'[1] \in {"worker", "realize", "render_drain", "render"}]_vars
    /\ [](guiPc = "aborted" => last[1] = "realize_failed")

\* C20 witness: a key press the filter did not consume although the input
\* method committed text during the call: the commit handler and then the
\* key-press handler each borrowed the cell and pushed.
C20_Witness ==
    /\ last[1] = "key_press" /\ IsSome(last[2].char) /\ last[2].commits # <<>>
    /\ ~last[2].panicked
    /\ IsSome(state) /\ Len(Queue) = 2 /\ Queue[1][1] = "StrInput"
    /\ Queue[2][1] = "CharInput"

====
